---- MODULE Spec2Model ----
(***************************************************************************)
(* Checkpointable pull pipeline of torchdata.nodes.io:                     *)
(*   FileLister            (file_list.py)               "Lister"           *)
(*   FileReader            (file_read.py)               "BulkReader"       *)
(*   TextStreamingDecoder  (text_streaming_decoder.py)  "LineStreamer"     *)
(* Each stage is modelled as a record of its instance fields, and each of  *)
(* its methods as an operator from the fields before the call to the       *)
(* fields after it plus the value returned or the exception raised.        *)
(***************************************************************************)
EXTENDS Integers, Sequences, FiniteSets, TLC

VARIABLES
    upstream,   \* LineStreamer: the list the upstream source iterates over
    ls,         \* LineStreamer: the instance of the uninterrupted run
    ls_pc,      \* "constructed" until the first reset, then "running"
    emitted,    \* line items returned by ls.next() since the last reset(None)
    eos,        \* TRUE once ls.next() has raised StopIteration
    ckpt,       \* a checkpoint taken from ls with get_state(), or None
    rs,         \* a fresh instance after reset(checkpoint), or None
    rout,       \* what the first next() of rs gave, or None
    br_upstream,\* FileReader: the list its upstream source iterates over
    br,         \* FileReader: the instance of the uninterrupted run
    br_pc,      \* "constructed" until the first reset, then "running"
    br_outs,    \* what each br.next() gave: an item or the error raised
    br_eos,     \* TRUE once br.next() has raised StopIteration
    br_ckpt,    \* a checkpoint taken from br with get_state(), or None
    br_rs,      \* a fresh FileReader after reset(checkpoint), or None
    br_rout,    \* what the first next() of br_rs gave, or None
    fl_backend, \* FileLister: the storage backend behind fsspec
    fl,         \* FileLister: the instance of the uninterrupted run
    fl_pc,      \* "constructed" until the first reset, then "running"
    fl_outs,    \* the items fl.next() returned since the last reset(None)
    fl_eos,     \* TRUE once fl.next() has raised StopIteration
    fl_ckpt,    \* a checkpoint taken from fl with get_state(), or None
    fl_rs,      \* a fresh FileLister after reset(checkpoint), or None
    fl_rout     \* what the first next() of fl_rs gave, or None

lsVars == <<upstream, ls, ls_pc, emitted, eos, ckpt, rs, rout>>
brVars == <<br_upstream, br, br_pc, br_outs, br_eos, br_ckpt, br_rs, br_rout>>
flVars == <<fl_backend, fl, fl_pc, fl_outs, fl_eos, fl_ckpt, fl_rs, fl_rout>>
vars == <<lsVars, brVars, flVars>>

----------------------------------------------------------------------------
(* Python values *)

None == << >>
Some(x) == << x >>

\* a metadata value: Python str or int, kept in one shape
S(x) == [t |-> "str", s |-> x, i |-> 0]
I(n) == [t |-> "int", s |-> "", i |-> n]

EmptyDict == << >>

\* dict.update: the keys of d2 overwrite those of d1
DictUpdate(d1, d2) ==
    [k \in (DOMAIN d1) \cup (DOMAIN d2) |->
        IF k \in DOMAIN d2 THEN d2[k] ELSE d1[k]]

NL == "\n"

\* str.rstrip("\n"): drops every trailing newline
RECURSIVE rstrip(_)
rstrip(line) ==
    IF Len(line) > 0 /\ line[Len(line)] = NL
    THEN rstrip(SubSeq(line, 1, Len(line) - 1))
    ELSE line

----------------------------------------------------------------------------
(* The universal-open abstraction: what open(uri) and readline() give.     *)

NoFail == 0 - 1

\* The storage the runs read: per URI whether it opens, its text, and the
\* 0-based line whose read raises an I/O error (NoFail: none).
Storage ==
    [u \in {"bad.txt", "empty.txt", "a.txt", "c.txt", "err.txt"} |->
        CASE u = "bad.txt"   -> [opens |-> FALSE, text |-> << >>, failAt |-> NoFail]
          [] u = "empty.txt" -> [opens |-> TRUE, text |-> << >>, failAt |-> NoFail]
          [] u = "a.txt"     -> [opens |-> TRUE, text |-> <<"x", NL, "y", NL>>, failAt |-> NoFail]
          [] u = "c.txt"     -> [opens |-> TRUE, text |-> <<NL, "w">>, failAt |-> NoFail]
          [] u = "err.txt"   -> [opens |-> TRUE, text |-> <<"p", NL, "q", NL>>, failAt |-> 1]]

URIs == DOMAIN Storage

CanOpen(uri) == uri \in URIs /\ Storage[uri].opens

\* a handle: the file, the characters and the lines already read
OpenHandle(uri) == [uri |-> uri, off |-> 0, ln |-> 0]

RECURSIVE LineEnd(_, _)
LineEnd(text, i) ==
    IF i > Len(text) THEN Len(text)
    ELSE IF text[i] = NL THEN i
    ELSE LineEnd(text, i + 1)

\* file.readline(): the next line with its newline, "" at end of file
ReadFails(h) == Storage[h.uri].failAt = h.ln
readline(h) ==
    LET text == Storage[h.uri].text
    IN SubSeq(text, h.off + 1, LineEnd(text, h.off + 1))
Advance(h) ==
    [h EXCEPT !.off = LineEnd(Storage[h.uri].text, h.off + 1), !.ln = h.ln + 1]

----------------------------------------------------------------------------
(* The upstream source of the decoder: a list source with an index, as the *)
(* MockSourceNode of test_text_streaming_decoder.py, over items that are   *)
(* a bare URI string or a dict with "data" and, optionally, "metadata".    *)

StrItem(uri) == [form |-> "str", data |-> uri, hasMeta |-> FALSE, metadata |-> EmptyDict]
DictItem(uri, hasMeta, md) ==
    [form |-> "dict", data |-> uri, hasMeta |-> hasMeta,
     metadata |-> IF hasMeta THEN md ELSE EmptyDict]

SrcConstructed == [idx |-> 0]

SrcReset(initial_state) ==
    IF initial_state = None THEN [idx |-> 0]
    ELSE [idx |-> IF "idx" \in DOMAIN initial_state[1] THEN initial_state[1].idx ELSE 0]

\* next(): StopIteration past the end, else the item and the index moved on
SrcNext(src, items) ==
    IF src.idx >= Len(items)
    THEN [stop |-> TRUE, src |-> src, item |-> StrItem("")]
    ELSE [stop |-> FALSE, src |-> [idx |-> src.idx + 1], item |-> items[src.idx + 1]]

SrcGetState(src) == [idx |-> src.idx]

----------------------------------------------------------------------------
(* TextStreamingDecoder *)

StopIteration == [kind |-> "StopIteration", data |-> << >>, metadata |-> EmptyDict]
LineItem(data, metadata) == [kind |-> "item", data |-> data, metadata |-> metadata]

\* __init__
LSConstructed ==
    [source |-> SrcConstructed,
     current_file |-> None,
     current_line |-> 0,
     file_handle |-> None,
     source_metadata |-> EmptyDict,
     open_handles |-> 0]

\* open_handles counts the handles the decoder opened and has not closed.
\* "self._file_handle = open(...)" and "self._file_handle.close()":
LSOpen(n, uri) ==
    [n EXCEPT !.file_handle = Some(OpenHandle(uri)), !.open_handles = @ + 1]
LSClose(n) == [n EXCEPT !.open_handles = @ - 1]

\* mutant of the skip loop of reset: no line is discarded
LSSkipLines_SkipsNone(n, k) == [node |-> n, exc |-> "none"]

\* the loop "for _ in range(current_line): next(file_handle)" of reset:
\* next() on a handle raises StopIteration at end of file
RECURSIVE LSSkipLines(_, _)
LSSkipLines(n, k) ==
    IF k = 0 THEN [node |-> n, exc |-> "none"]
    ELSE LET h == n.file_handle[1]
         IN IF ReadFails(h) THEN [node |-> n, exc |-> "IOError"]
            ELSE IF readline(h) = << >> THEN [node |-> n, exc |-> "StopIteration"]
            ELSE LSSkipLines([n EXCEPT !.file_handle = Some(Advance(h))], k - 1)

\* mutant of reset: the handle is dropped without being closed
LSReset_DropsHandle(n, initial_state) ==
    LET closed == [n EXCEPT !.file_handle = None]
    IN IF initial_state = None
       THEN [node |-> [closed EXCEPT !.source = SrcReset(None),
                                     !.current_file = None,
                                     !.current_line = 0,
                                     !.source_metadata = EmptyDict],
             exc |-> "none"]
       ELSE LET st == initial_state[1]
                n1 == [closed EXCEPT
                         !.source = SrcReset(Some(st.source)),
                         !.current_file = st.current_file,
                         !.current_line =
                            IF "current_line" \in DOMAIN st THEN st.current_line ELSE 0,
                         !.source_metadata =
                            IF "metadata" \in DOMAIN st THEN st.metadata ELSE EmptyDict]
            IN IF n1.current_file = None THEN [node |-> n1, exc |-> "none"]
               ELSE IF ~CanOpen(n1.current_file[1]) THEN [node |-> n1, exc |-> "OpenError"]
               ELSE LSSkipLines(LSOpen(n1, n1.current_file[1]), n1.current_line)

\* mutant of reset: reset(None) leaves the last-seen source metadata in place
LSReset_KeepsMetadata(n, initial_state) ==
    LET closed == IF n.file_handle # None
                  THEN [LSClose(n) EXCEPT !.file_handle = None]
                  ELSE n
    IN IF initial_state = None
       THEN [node |-> [closed EXCEPT !.source = SrcReset(None),
                                     !.current_file = None,
                                     !.current_line = 0],
             exc |-> "none"]
       ELSE LET st == initial_state[1]
                n1 == [closed EXCEPT
                         !.source = SrcReset(Some(st.source)),
                         !.current_file = st.current_file,
                         !.current_line =
                            IF "current_line" \in DOMAIN st THEN st.current_line ELSE 0,
                         !.source_metadata =
                            IF "metadata" \in DOMAIN st THEN st.metadata ELSE EmptyDict]
            IN IF n1.current_file = None THEN [node |-> n1, exc |-> "none"]
               ELSE IF ~CanOpen(n1.current_file[1]) THEN [node |-> n1, exc |-> "OpenError"]
               ELSE LSSkipLines(LSOpen(n1, n1.current_file[1]), n1.current_line)

\* reset(initial_state): the fields after it and the exception it raised
LSReset(n, initial_state) ==
    LET closed == IF n.file_handle # None
                  THEN [LSClose(n) EXCEPT !.file_handle = None]
                  ELSE n
    IN IF initial_state = None
       THEN [node |-> [closed EXCEPT !.source = SrcReset(None),
                                     !.current_file = None,
                                     !.current_line = 0,
                                     !.source_metadata = EmptyDict],
             exc |-> "none"]
       ELSE LET st == initial_state[1]
                n1 == [closed EXCEPT
                         !.source = SrcReset(Some(st.source)),
                         !.current_file = st.current_file,
                         !.current_line =
                            IF "current_line" \in DOMAIN st THEN st.current_line ELSE 0,
                         !.source_metadata =
                            IF "metadata" \in DOMAIN st THEN st.metadata ELSE EmptyDict]
            IN IF n1.current_file = None THEN [node |-> n1, exc |-> "none"]
               ELSE IF ~CanOpen(n1.current_file[1]) THEN [node |-> n1, exc |-> "OpenError"]
               ELSE LSSkipLines(LSOpen(n1, n1.current_file[1]), n1.current_line)

\* __del__: closes the handle, if there is one
LSDel(n) == IF n.file_handle # None THEN LSClose(n) ELSE n

\* mutant of _get_next_file: a file that fails to open ends the sequence
LSGetNextFile_OpenFailureStops(n, items) ==
    LET r == SrcNext(n.source, items)
    IN IF r.stop THEN [stop |-> TRUE, opened |-> FALSE, node |-> n]
       ELSE LET n1 == IF r.item.form = "dict"
                      THEN [n EXCEPT !.source = r.src,
                                     !.current_file = Some(r.item.data),
                                     !.source_metadata =
                                        IF r.item.hasMeta THEN r.item.metadata
                                        ELSE n.source_metadata]
                      ELSE [n EXCEPT !.source = r.src,
                                     !.current_file = Some(r.item.data),
                                     !.source_metadata = EmptyDict]
            IN IF CanOpen(r.item.data)
               THEN [stop |-> FALSE, opened |-> TRUE,
                     node |-> [LSOpen(n1, r.item.data) EXCEPT !.current_line = 0]]
               ELSE [stop |-> TRUE, opened |-> FALSE,
                     node |-> [n1 EXCEPT !.file_handle = None]]

\* mutant of _get_next_file: after a failure to open, the same upstream item
\* is tried again
LSGetNextFile_RetriesSameFile(n, items) ==
    LET r == SrcNext(n.source, items)
    IN IF r.stop THEN [stop |-> TRUE, opened |-> FALSE, node |-> n]
       ELSE LET n1 == IF r.item.form = "dict"
                      THEN [n EXCEPT !.source = r.src,
                                     !.current_file = Some(r.item.data),
                                     !.source_metadata =
                                        IF r.item.hasMeta THEN r.item.metadata
                                        ELSE n.source_metadata]
                      ELSE [n EXCEPT !.source = r.src,
                                     !.current_file = Some(r.item.data),
                                     !.source_metadata = EmptyDict]
            IN IF CanOpen(r.item.data)
               THEN [stop |-> FALSE, opened |-> TRUE,
                     node |-> [LSOpen(n1, r.item.data) EXCEPT !.current_line = 0]]
               ELSE [stop |-> FALSE, opened |-> FALSE,
                     node |-> [n1 EXCEPT !.file_handle = None, !.source = n.source]]

\* _get_next_file: stop when the source raised StopIteration, else whether
\* the file opened
LSGetNextFile(n, items) ==
    LET r == SrcNext(n.source, items)
    IN IF r.stop THEN [stop |-> TRUE, opened |-> FALSE, node |-> n]
       ELSE LET n1 == IF r.item.form = "dict"
                      THEN [n EXCEPT !.source = r.src,
                                     !.current_file = Some(r.item.data),
                                     !.source_metadata =
                                        IF r.item.hasMeta THEN r.item.metadata
                                        ELSE n.source_metadata]
                      ELSE [n EXCEPT !.source = r.src,
                                     !.current_file = Some(r.item.data),
                                     !.source_metadata = EmptyDict]
            IN IF CanOpen(r.item.data)
               THEN [stop |-> FALSE, opened |-> TRUE,
                     node |-> [LSOpen(n1, r.item.data) EXCEPT !.current_line = 0]]
               ELSE [stop |-> FALSE, opened |-> FALSE,
                     node |-> [n1 EXCEPT !.file_handle = None]]

\* the metadata of a line item
LSLineMetadata(n) ==
    LET own == [k \in {"file_path", "item_idx"} |->
                   IF k = "file_path" THEN S(n.current_file[1]) ELSE I(n.current_line)]
    IN IF DOMAIN n.source_metadata # {}
       THEN DictUpdate(own, n.source_metadata)
       ELSE own

\* mutant of _get_next_line: a blank line is taken for the end of the file
LSGetNextLine_BlankIsEof(n) ==
    LET h == n.file_handle[1]
    IN IF ReadFails(h)
       THEN [line |-> None, node |-> [LSClose(n) EXCEPT !.file_handle = None]]
       ELSE IF rstrip(readline(h)) = << >>
       THEN [line |-> None, node |-> [LSClose(n) EXCEPT !.file_handle = None]]
       ELSE [line |-> Some(LineItem(rstrip(readline(h)), LSLineMetadata(n))),
             node |-> [n EXCEPT !.file_handle = Some(Advance(h)),
                                !.current_line = n.current_line + 1]]

\* mutant of _get_next_line: the end of the file is returned as an empty item
LSGetNextLine_EofIsItem(n) ==
    LET h == n.file_handle[1]
    IN IF ReadFails(h)
       THEN [line |-> None, node |-> [LSClose(n) EXCEPT !.file_handle = None]]
       ELSE IF readline(h) = << >>
       THEN [line |-> Some(LineItem(<< >>, LSLineMetadata(n))),
             node |-> [LSClose(n) EXCEPT !.file_handle = None]]
       ELSE [line |-> Some(LineItem(rstrip(readline(h)), LSLineMetadata(n))),
             node |-> [n EXCEPT !.file_handle = Some(Advance(h)),
                                !.current_line = n.current_line + 1]]

\* mutant of _get_next_line: a read error is passed over as a blank line
LSGetNextLine_ErrorIsBlankLine(n) ==
    LET h == n.file_handle[1]
    IN IF ReadFails(h)
       THEN [line |-> Some(LineItem(<< >>, LSLineMetadata(n))),
             node |-> [n EXCEPT !.file_handle = Some(Advance(h)),
                                !.current_line = n.current_line + 1]]
       ELSE IF readline(h) = << >>
       THEN [line |-> None, node |-> [LSClose(n) EXCEPT !.file_handle = None]]
       ELSE [line |-> Some(LineItem(rstrip(readline(h)), LSLineMetadata(n))),
             node |-> [n EXCEPT !.file_handle = Some(Advance(h)),
                                !.current_line = n.current_line + 1]]

\* _get_next_line: None (end of file or a read error) or the line item
LSGetNextLine(n) ==
    LET h == n.file_handle[1]
    IN IF ReadFails(h)
       THEN [line |-> None, node |-> [LSClose(n) EXCEPT !.file_handle = None]]
       ELSE IF readline(h) = << >>
       THEN [line |-> None, node |-> [LSClose(n) EXCEPT !.file_handle = None]]
       ELSE [line |-> Some(LineItem(rstrip(readline(h)), LSLineMetadata(n))),
             node |-> [n EXCEPT !.file_handle = Some(Advance(h)),
                                !.current_line = n.current_line + 1]]

\* mutant of next(): the end of a file ends the sequence
RECURSIVE LSNextOp_EofStops(_, _)
LSNextOp_EofStops(n, items) ==
    IF n.file_handle = None
    THEN LET f == LSGetNextFile(n, items)
         IN IF f.stop THEN [node |-> f.node, out |-> StopIteration]
            ELSE LSNextOp_EofStops(f.node, items)
    ELSE LET r == LSGetNextLine(n)
         IN IF r.line = None THEN [node |-> r.node, out |-> StopIteration]
            ELSE [node |-> r.node, out |-> r.line[1]]

\* next(): loops until a line is read or the source raises StopIteration
RECURSIVE LSNextOp(_, _)
LSNextOp(n, items) ==
    IF n.file_handle = None
    THEN LET f == LSGetNextFile(n, items)
         IN IF f.stop THEN [node |-> f.node, out |-> StopIteration]
            ELSE LSNextOp(f.node, items)
    ELSE LET r == LSGetNextLine(n)
         IN IF r.line = None THEN LSNextOp(r.node, items)
            ELSE [node |-> r.node, out |-> r.line[1]]

\* mutant of get_state: the checkpoint of a fresh source is embedded
LSGetState_FreshSource(n) ==
    [source |-> SrcGetState(SrcConstructed),
     current_file |-> n.current_file,
     current_line |-> n.current_line]

\* get_state
LSGetState(n) ==
    [source |-> SrcGetState(n.source),
     current_file |-> n.current_file,
     current_line |-> n.current_line]

----------------------------------------------------------------------------
(* The runs of the decoder: an uninterrupted run (ls), a checkpoint taken  *)
(* from it, and a fresh instance over a fresh upstream restored from the   *)
(* checkpoint (rs).                                                        *)

MaxUp == 2

Metas ==
    { EmptyDict,
      [source |-> S("s3")],
      [file_path |-> S("other.txt"), item_idx |-> I(7)] }

LSItems ==
    {StrItem(u) : u \in URIs}
      \cup {DictItem(u, FALSE, EmptyDict) : u \in URIs}
      \cup {DictItem(u, TRUE, m) : u \in URIs, m \in Metas}

SeqsUpTo(A, n) == UNION {[1..k -> A] : k \in 0..n}

\* ls.reset(None)
LSResetNone ==
    /\ ls_pc \in {"constructed", "running"}
    /\ ls' = LSReset(ls, None).node
    /\ ls_pc' = "running"
    /\ emitted' = << >>
    /\ eos' = FALSE
    /\ ckpt' = None
    /\ rs' = None
    /\ rout' = None
    /\ UNCHANGED upstream
    /\ UNCHANGED <<brVars, flVars>>

\* ls.next(); after a checkpoint the uninterrupted run goes one call further
LSNext ==
    /\ ls_pc = "running"
    /\ IF ckpt = None THEN TRUE ELSE Len(emitted) = ckpt[1].n /\ eos = ckpt[1].eos
    /\ LET r == LSNextOp(ls, upstream)
       IN /\ ls' = r.node
          /\ IF r.out = StopIteration
             THEN eos' = TRUE /\ UNCHANGED emitted
             ELSE emitted' = Append(emitted, r.out) /\ UNCHANGED eos
    /\ UNCHANGED <<upstream, ls_pc, ckpt, rs, rout>>
    /\ UNCHANGED <<brVars, flVars>>

\* state = ls.get_state(), after n = Len(emitted) lines
LSCheckpoint ==
    /\ ls_pc = "running"
    /\ ckpt = None
    /\ ckpt' = Some([state |-> LSGetState(ls), n |-> Len(emitted), eos |-> eos])
    /\ UNCHANGED <<upstream, ls, ls_pc, emitted, eos, rs, rout>>
    /\ UNCHANGED <<brVars, flVars>>

\* a fresh decoder over a fresh source, then reset(state)
LSRestore ==
    /\ ckpt # None
    /\ rs = None
    /\ rs' = Some(LSReset(LSConstructed, Some(ckpt[1].state)))
    /\ UNCHANGED <<upstream, ls, ls_pc, emitted, eos, ckpt, rout>>
    /\ UNCHANGED <<brVars, flVars>>

\* the first next() of the restored decoder
LSResumedNext ==
    /\ rs # None
    /\ rs[1].exc = "none"
    /\ rout = None
    /\ LET r == LSNextOp(rs[1].node, upstream)
       IN /\ rs' = Some([node |-> r.node, exc |-> "none"])
          /\ rout' = Some(r.out)
    /\ UNCHANGED <<upstream, ls, ls_pc, emitted, eos, ckpt>>
    /\ UNCHANGED <<brVars, flVars>>

\* the decoder is disposed of (del node): the run and what was kept of it end
LSDispose ==
    /\ ls_pc \in {"constructed", "running"}
    /\ ls' = LSDel(ls)
    /\ ls_pc' = "disposed"
    /\ emitted' = << >>
    /\ eos' = FALSE
    /\ ckpt' = None
    /\ rs' = None
    /\ rout' = None
    /\ UNCHANGED upstream
    /\ UNCHANGED <<brVars, flVars>>

NextLS ==
    LSResetNone \/ LSNext \/ LSCheckpoint \/ LSRestore \/ LSResumedNext \/ LSDispose

----------------------------------------------------------------------------
(* FileReader.  Its upstream is a list source over dict items, as the       *)
(* MockSourceNode of test_file_read.py, whose checkpoint key is             *)
(* "current_idx".                                                          *)

BSrcConstructed == [current_idx |-> 0]

BSrcReset(initial_state) ==
    IF initial_state = None THEN [current_idx |-> 0]
    ELSE [current_idx |->
            IF "current_idx" \in DOMAIN initial_state[1]
            THEN initial_state[1].current_idx ELSE 0]

BSrcNext(src, items) ==
    IF src.current_idx >= Len(items)
    THEN [stop |-> TRUE, src |-> src, item |-> DictItem("", FALSE, EmptyDict)]
    ELSE [stop |-> FALSE, src |-> [current_idx |-> src.current_idx + 1],
          item |-> items[src.current_idx + 1]]

BSrcGetState(src) == [current_idx |-> src.current_idx]

\* __init__
BRConstructed == [source |-> BSrcConstructed]

\* mutant of reset: the checkpoint of the source is not passed on
BRReset_DropsSourceState(n, initial_state) ==
    [n EXCEPT !.source = BSrcReset(None)]

\* reset(initial_state)
BRReset(n, initial_state) ==
    IF initial_state # None
    THEN [n EXCEPT !.source =
            BSrcReset(IF "source" \in DOMAIN initial_state[1]
                      THEN Some(initial_state[1].source) ELSE None)]
    ELSE [n EXCEPT !.source = BSrcReset(None)]

\* "with open(...) as f: content = f.read()": the whole text, or the error
BRReadAll(uri) ==
    IF ~CanOpen(uri) THEN [exc |-> "OpenError", content |-> << >>]
    ELSE IF Storage[uri].failAt # NoFail THEN [exc |-> "IOError", content |-> << >>]
    ELSE [exc |-> "none", content |-> Storage[uri].text]

\* the metadata of a content item
BRMetadata(file_path, source_metadata) ==
    LET own == [k \in {"file_path"} |-> S(file_path)]
    IN IF DOMAIN source_metadata # {}
       THEN DictUpdate(own, source_metadata)
       ELSE own

BRError(exc) == [kind |-> exc, data |-> << >>, metadata |-> EmptyDict]

\* mutant of next(): a file that cannot be read is skipped and the call goes
\* on to the next upstream item
RECURSIVE BRNextOp_SkipsFailed(_, _)
BRNextOp_SkipsFailed(n, items) ==
    LET r == BSrcNext(n.source, items)
    IN IF r.stop THEN [node |-> n, out |-> StopIteration]
       ELSE LET file_path == r.item.data
                source_metadata == IF r.item.hasMeta THEN r.item.metadata ELSE EmptyDict
                rd == BRReadAll(file_path)
                n1 == [n EXCEPT !.source = r.src]
            IN IF rd.exc # "none" THEN BRNextOp_SkipsFailed(n1, items)
               ELSE [node |-> n1,
                     out |-> LineItem(rd.content, BRMetadata(file_path, source_metadata))]

\* mutant of next(): after a failure the upstream item is not consumed
BRNextOp_RetriesFailed(n, items) ==
    LET r == BSrcNext(n.source, items)
    IN IF r.stop THEN [node |-> n, out |-> StopIteration]
       ELSE LET file_path == r.item.data
                source_metadata == IF r.item.hasMeta THEN r.item.metadata ELSE EmptyDict
                rd == BRReadAll(file_path)
                n1 == [n EXCEPT !.source = r.src]
            IN IF rd.exc # "none" THEN [node |-> n, out |-> BRError(rd.exc)]
               ELSE [node |-> n1,
                     out |-> LineItem(rd.content, BRMetadata(file_path, source_metadata))]

\* next(): the content item, the error raised, or StopIteration
BRNextOp(n, items) ==
    LET r == BSrcNext(n.source, items)
    IN IF r.stop THEN [node |-> n, out |-> StopIteration]
       ELSE LET file_path == r.item.data
                source_metadata == IF r.item.hasMeta THEN r.item.metadata ELSE EmptyDict
                rd == BRReadAll(file_path)
                n1 == [n EXCEPT !.source = r.src]
            IN IF rd.exc # "none" THEN [node |-> n1, out |-> BRError(rd.exc)]
               ELSE [node |-> n1,
                     out |-> LineItem(rd.content, BRMetadata(file_path, source_metadata))]

\* get_state
BRGetState(n) == [source |-> BSrcGetState(n.source)]

(* The runs of the reader. *)

BRMetas ==
    { EmptyDict,
      [source |-> S("s3")],
      [file_path |-> S("other.txt")] }

BRItems ==
    {DictItem(u, FALSE, EmptyDict) : u \in URIs}
      \cup {DictItem(u, TRUE, m) : u \in URIs, m \in BRMetas}

\* br.reset(None)
BRResetNone ==
    /\ br' = BRReset(br, None)
    /\ br_pc' = "running"
    /\ br_outs' = << >>
    /\ br_eos' = FALSE
    /\ br_ckpt' = None
    /\ br_rs' = None
    /\ br_rout' = None
    /\ UNCHANGED br_upstream
    /\ UNCHANGED <<lsVars, flVars>>

\* br.next(); after a checkpoint the uninterrupted run goes one call further
BRNext ==
    /\ br_pc = "running"
    /\ IF br_ckpt = None THEN TRUE
       ELSE Len(br_outs) = br_ckpt[1].n /\ br_eos = br_ckpt[1].eos
    /\ LET r == BRNextOp(br, br_upstream)
       IN /\ br' = r.node
          /\ IF r.out = StopIteration
             THEN br_eos' = TRUE /\ UNCHANGED br_outs
             ELSE br_outs' = Append(br_outs, r.out) /\ UNCHANGED br_eos
    /\ UNCHANGED <<br_upstream, br_pc, br_ckpt, br_rs, br_rout>>
    /\ UNCHANGED <<lsVars, flVars>>

\* state = br.get_state(), after n = Len(br_outs) calls
BRCheckpoint ==
    /\ br_pc = "running"
    /\ br_ckpt = None
    /\ br_ckpt' = Some([state |-> BRGetState(br), n |-> Len(br_outs), eos |-> br_eos])
    /\ UNCHANGED <<br_upstream, br, br_pc, br_outs, br_eos, br_rs, br_rout>>
    /\ UNCHANGED <<lsVars, flVars>>

\* a fresh reader over a fresh source, then reset(state)
BRRestore ==
    /\ br_ckpt # None
    /\ br_rs = None
    /\ br_rs' = Some(BRReset(BRConstructed, Some(br_ckpt[1].state)))
    /\ UNCHANGED <<br_upstream, br, br_pc, br_outs, br_eos, br_ckpt, br_rout>>
    /\ UNCHANGED <<lsVars, flVars>>

\* the first next() of the restored reader
BRResumedNext ==
    /\ br_rs # None
    /\ br_rout = None
    /\ LET r == BRNextOp(br_rs[1], br_upstream)
       IN /\ br_rs' = Some(r.node)
          /\ br_rout' = Some(r.out)
    /\ UNCHANGED <<br_upstream, br, br_pc, br_outs, br_eos, br_ckpt>>
    /\ UNCHANGED <<lsVars, flVars>>

NextBR == BRResetNone \/ BRNext \/ BRCheckpoint \/ BRRestore \/ BRResumedNext

----------------------------------------------------------------------------
(* FileLister.  Paths are sequences of character codes, ordered as Python  *)
(* orders str: lexicographically by code.                                  *)

LexLess(a, b) ==
    \/ Len(a) < Len(b) /\ SubSeq(b, 1, Len(a)) = a
    \/ \E i \in 1..Len(a) :
          /\ i <= Len(b)
          /\ a[i] < b[i]
          /\ SubSeq(a, 1, i - 1) = SubSeq(b, 1, i - 1)

\* mutant of sorted: descending
RECURSIVE sorted_Descending(_)
sorted_Descending(paths) ==
    IF paths = {} THEN << >>
    ELSE LET m == CHOOSE x \in paths : \A y \in paths : x = y \/ LexLess(y, x)
         IN <<m>> \o sorted_Descending(paths \ {m})

\* sorted(set of paths)
RECURSIVE sorted(_)
sorted(paths) ==
    IF paths = {} THEN << >>
    ELSE LET m == CHOOSE x \in paths : \A y \in paths : x = y \/ LexLess(x, y)
         IN <<m>> \o sorted(paths \ {m})

Reverse(q) == [i \in 1..Len(q) |-> q[Len(q) + 1 - i]]
Range(q) == {q[i] : i \in 1..Len(q)}

\* The entries a backend can hold under the base URI: "a", "b", the
\* directory "d" and "d/a".
PathA == <<97>>
PathB == <<98>>
PathD == <<100>>
PathDA == <<100, 47, 97>>
Entries == {PathA, PathB, PathD, PathDA}
Directories == {PathD}
TopLevel == {PathA, PathB, PathD}

Patterns == {"*", "**/*", "d*"}

\* what the backend's glob matches for base/pattern
GlobMatches(content, pattern) ==
    CASE pattern = "*"    -> content \cap TopLevel
      [] pattern = "**/*" -> content
      [] pattern = "d*"   -> content \cap {PathD}
      [] OTHER            -> {}

\* fs.glob(pattern_path): the list of matches in the backend's order, or an
\* error
FsGlob(backend, pattern) ==
    IF pattern \in backend.globFails
    THEN [raised |-> TRUE, matches |-> << >>]
    ELSE [raised |-> FALSE,
          matches |-> IF backend.order = "asc"
                      THEN sorted(GlobMatches(backend.content, pattern))
                      ELSE Reverse(sorted(GlobMatches(backend.content, pattern)))]

\* fs.isfile(path), and whether the call raises
FsIsFile(backend, path) == path \in backend.content /\ path \notin Directories
FsIsFileRaises(backend, path) == path \in backend.isfileFails

\* f"{protocol}://{path}"
ProtocolCodes(protocol) == IF protocol = "s3" THEN <<115, 51>> ELSE <<102, 105, 108, 101>>
Qualify(protocol, path) == ProtocolCodes(protocol) \o <<58, 47, 47>> \o path

\* fsspec.filesystem(protocol, **fs_options) in __init__ raises when the
\* backend of the protocol cannot be resolved; the call is in no try block
FLInitRaises(backend) == ~backend.resolves

\* __init__(uri_base, patterns): no pattern means ["*"]; _file_paths is None,
\* which next() does not tell from the empty list
FLConstructed(protocol, patterns) ==
    [protocol |-> protocol,
     patterns |-> IF patterns # << >> THEN patterns ELSE <<"*">>,
     file_paths |-> << >>,
     current_idx |-> 0]

\* mutant of the loop: an error in one pattern ends the listing with nothing
RECURSIVE FLCollect_FirstErrorAborts(_, _, _)
FLCollect_FirstErrorAborts(backend, patterns, acc) ==
    IF patterns = << >> THEN acc
    ELSE LET pattern == Head(patterns)
             g == FsGlob(backend, pattern)
             wildcard == pattern = "**/*" \/ pattern = "*"
             raised == \/ g.raised
                       \/ wildcard /\ \E m \in Range(g.matches) : FsIsFileRaises(backend, m)
             matches == IF wildcard
                        THEN {m \in Range(g.matches) : FsIsFile(backend, m)}
                        ELSE Range(g.matches)
         IN IF raised THEN {}
            ELSE FLCollect_FirstErrorAborts(backend, Tail(patterns), acc \cup matches)

\* mutant of the loop: directories are not filtered out of the matches
RECURSIVE FLCollect_NoFilter(_, _, _)
FLCollect_NoFilter(backend, patterns, acc) ==
    IF patterns = << >> THEN acc
    ELSE LET pattern == Head(patterns)
             g == FsGlob(backend, pattern)
             wildcard == pattern = "**/*" \/ pattern = "*"
             raised == \/ g.raised
                       \/ wildcard /\ \E m \in Range(g.matches) : FsIsFileRaises(backend, m)
             matches == Range(g.matches)
         IN FLCollect_NoFilter(backend, Tail(patterns),
                      IF raised THEN acc ELSE acc \cup matches)

\* the loop over the patterns of reset: the set of matches; a pattern whose
\* glob or whose is-file filter raises adds nothing
RECURSIVE FLCollect(_, _, _)
FLCollect(backend, patterns, acc) ==
    IF patterns = << >> THEN acc
    ELSE LET pattern == Head(patterns)
             g == FsGlob(backend, pattern)
             wildcard == pattern = "**/*" \/ pattern = "*"
             raised == \/ g.raised
                       \/ wildcard /\ \E m \in Range(g.matches) : FsIsFileRaises(backend, m)
             matches == IF wildcard
                        THEN {m \in Range(g.matches) : FsIsFile(backend, m)}
                        ELSE Range(g.matches)
         IN FLCollect(backend, Tail(patterns),
                      IF raised THEN acc ELSE acc \cup matches)

\* mutant of reset: the position of the checkpoint is not restored
FLReset_KeepsZero(n, backend, initial_state) ==
    LET listed == sorted(FLCollect(backend, n.patterns, {}))
        file_paths == IF n.protocol # "file"
                      THEN [i \in 1..Len(listed) |-> Qualify(n.protocol, listed[i])]
                      ELSE listed
    IN [n EXCEPT !.file_paths = file_paths, !.current_idx = 0]

\* the matches in the order they are found, each once
RECURSIVE FLCollectInOrder(_, _, _)
FLCollectInOrder(backend, patterns, acc) ==
    IF patterns = << >> THEN acc
    ELSE LET pattern == Head(patterns)
             g == FsGlob(backend, pattern)
             wildcard == pattern = "**/*" \/ pattern = "*"
             raised == \/ g.raised
                       \/ wildcard /\ \E m \in Range(g.matches) : FsIsFileRaises(backend, m)
             keep(m) == /\ m \notin Range(acc)
                        /\ wildcard => FsIsFile(backend, m)
         IN FLCollectInOrder(backend, Tail(patterns),
                             IF raised THEN acc ELSE acc \o SelectSeq(g.matches, keep))

\* mutant of reset: the matches are listed as found, not sorted
FLReset_Unsorted(n, backend, initial_state) ==
    LET listed == FLCollectInOrder(backend, n.patterns, << >>)
        file_paths == IF n.protocol # "file"
                      THEN [i \in 1..Len(listed) |-> Qualify(n.protocol, listed[i])]
                      ELSE listed
    IN [n EXCEPT
          !.file_paths = file_paths,
          !.current_idx =
             IF initial_state # None /\ DOMAIN initial_state[1] # {}
             THEN (IF "current_idx" \in DOMAIN initial_state[1]
                   THEN initial_state[1].current_idx ELSE 0)
             ELSE 0]

\* reset(initial_state)
FLReset(n, backend, initial_state) ==
    LET listed == sorted(FLCollect(backend, n.patterns, {}))
        file_paths == IF n.protocol # "file"
                      THEN [i \in 1..Len(listed) |-> Qualify(n.protocol, listed[i])]
                      ELSE listed
    IN [n EXCEPT
          !.file_paths = file_paths,
          !.current_idx =
             IF initial_state # None /\ DOMAIN initial_state[1] # {}
             THEN (IF "current_idx" \in DOMAIN initial_state[1]
                   THEN initial_state[1].current_idx ELSE 0)
             ELSE 0]

\* mutant of next(): the position is advanced before the entry is read
FLNextOp_AdvancesFirst(n) ==
    IF n.file_paths = << >> THEN [node |-> n, out |-> StopIteration]
    ELSE IF n.current_idx + 1 >= Len(n.file_paths) THEN [node |-> n, out |-> StopIteration]
    ELSE [node |-> [n EXCEPT !.current_idx = n.current_idx + 1],
          out |-> LineItem(n.file_paths[n.current_idx + 2],
                           [fs_protocol |-> S(n.protocol), source |-> S(n.protocol)])]

\* mutant of next(): the index is advanced also by a call that signals the
\* end of the list
FLNextOp_CountsPastEnd(n) ==
    IF n.file_paths = << >> THEN [node |-> n, out |-> StopIteration]
    ELSE IF n.current_idx >= Len(n.file_paths)
    THEN [node |-> [n EXCEPT !.current_idx = n.current_idx + 1], out |-> StopIteration]
    ELSE [node |-> [n EXCEPT !.current_idx = n.current_idx + 1],
          out |-> LineItem(n.file_paths[n.current_idx + 1],
                           [fs_protocol |-> S(n.protocol), source |-> S(n.protocol)])]

\* next(): the item, or StopIteration
FLNextOp(n) ==
    IF n.file_paths = << >> THEN [node |-> n, out |-> StopIteration]
    ELSE IF n.current_idx >= Len(n.file_paths) THEN [node |-> n, out |-> StopIteration]
    ELSE [node |-> [n EXCEPT !.current_idx = n.current_idx + 1],
          out |-> LineItem(n.file_paths[n.current_idx + 1],
                           [fs_protocol |-> S(n.protocol), source |-> S(n.protocol)])]

\* get_state
FLGetState(n) == [current_idx |-> n.current_idx]

(* The runs of the lister. *)

MaxPat == 2

\* the backends whose file system resolves: any content, either glob order,
\* at most one pattern whose glob raises, is-file raising for no path or for
\* the nested file
Resolvable ==
    {b \in [content : SUBSET Entries,
            order : {"asc", "desc"},
            globFails : {{}} \cup {{p} : p \in Patterns},
            isfileFails : {{}, {PathDA}},
            resolves : {TRUE}] : b.isfileFails \subseteq b.content}

\* a protocol whose file system cannot be resolved
Unresolvable ==
    [content |-> {}, order |-> "asc", globFails |-> {}, isfileFails |-> {},
     resolves |-> FALSE]

Backends == Resolvable \cup {Unresolvable}

\* fl.reset(None)
FLResetNone ==
    /\ fl_pc \in {"constructed", "running"}
    /\ fl' = FLReset(fl, fl_backend, None)
    /\ fl_pc' = "running"
    /\ fl_outs' = << >>
    /\ fl_eos' = FALSE
    /\ fl_ckpt' = None
    /\ fl_rs' = None
    /\ fl_rout' = None
    /\ UNCHANGED fl_backend
    /\ UNCHANGED <<lsVars, brVars>>

\* fl.next(); after a checkpoint the uninterrupted run goes one call further
FLNext ==
    /\ fl_pc = "running"
    /\ IF fl_ckpt = None THEN TRUE
       ELSE Len(fl_outs) = fl_ckpt[1].n /\ fl_eos = fl_ckpt[1].eos
    /\ LET r == FLNextOp(fl)
       IN /\ fl' = r.node
          /\ IF r.out = StopIteration
             THEN fl_eos' = TRUE /\ UNCHANGED fl_outs
             ELSE fl_outs' = Append(fl_outs, r.out) /\ UNCHANGED fl_eos
    /\ UNCHANGED <<fl_backend, fl_pc, fl_ckpt, fl_rs, fl_rout>>
    /\ UNCHANGED <<lsVars, brVars>>

\* state = fl.get_state(), after n = Len(fl_outs) items
FLCheckpoint ==
    /\ fl_pc = "running"
    /\ fl_ckpt = None
    /\ fl_ckpt' = Some([state |-> FLGetState(fl), n |-> Len(fl_outs), eos |-> fl_eos])
    /\ UNCHANGED <<fl_backend, fl, fl_pc, fl_outs, fl_eos, fl_rs, fl_rout>>
    /\ UNCHANGED <<lsVars, brVars>>

\* a fresh lister with the same base URI and patterns, then reset(state)
FLRestore ==
    /\ fl_ckpt # None
    /\ fl_rs = None
    /\ fl_rs' = Some(FLReset(FLConstructed(fl.protocol, fl.patterns), fl_backend,
                             Some(fl_ckpt[1].state)))
    /\ UNCHANGED <<fl_backend, fl, fl_pc, fl_outs, fl_eos, fl_ckpt, fl_rout>>
    /\ UNCHANGED <<lsVars, brVars>>

\* the first next() of the restored lister
FLResumedNext ==
    /\ fl_rs # None
    /\ fl_rout = None
    /\ LET r == FLNextOp(fl_rs[1])
       IN /\ fl_rs' = Some(r.node)
          /\ fl_rout' = Some(r.out)
    /\ UNCHANGED <<fl_backend, fl, fl_pc, fl_outs, fl_eos, fl_ckpt>>
    /\ UNCHANGED <<lsVars, brVars>>

NextFL == FLResetNone \/ FLNext \/ FLCheckpoint \/ FLRestore \/ FLResumedNext

----------------------------------------------------------------------------
(* Specifications: one per stage, started after construction; the stages   *)
(* that are not run stay as constructed.                                   *)

InitLS ==
    /\ upstream \in SeqsUpTo(LSItems, MaxUp)
    /\ ls = LSConstructed
    /\ ls_pc = "constructed"
    /\ emitted = << >>
    /\ eos = FALSE
    /\ ckpt = None
    /\ rs = None
    /\ rout = None
    /\ br_upstream = << >>
    /\ br = BRConstructed
    /\ br_pc = "constructed"
    /\ br_outs = << >>
    /\ br_eos = FALSE
    /\ br_ckpt = None
    /\ br_rs = None
    /\ br_rout = None
    /\ fl_backend = [content |-> {}, order |-> "asc", globFails |-> {},
                     isfileFails |-> {}, resolves |-> TRUE]
    /\ fl = FLConstructed("file", << >>)
    /\ fl_pc = "constructed"
    /\ fl_outs = << >>
    /\ fl_eos = FALSE
    /\ fl_ckpt = None
    /\ fl_rs = None
    /\ fl_rout = None

InitBR ==
    /\ upstream = << >>
    /\ ls = LSConstructed
    /\ ls_pc = "constructed"
    /\ emitted = << >>
    /\ eos = FALSE
    /\ ckpt = None
    /\ rs = None
    /\ rout = None
    /\ br_upstream \in SeqsUpTo(BRItems, MaxUp)
    /\ br = BRConstructed
    /\ br_pc = "constructed"
    /\ br_outs = << >>
    /\ br_eos = FALSE
    /\ br_ckpt = None
    /\ br_rs = None
    /\ br_rout = None
    /\ fl_backend = [content |-> {}, order |-> "asc", globFails |-> {},
                     isfileFails |-> {}, resolves |-> TRUE]
    /\ fl = FLConstructed("file", << >>)
    /\ fl_pc = "constructed"
    /\ fl_outs = << >>
    /\ fl_eos = FALSE
    /\ fl_ckpt = None
    /\ fl_rs = None
    /\ fl_rout = None

InitFL ==
    /\ upstream = << >>
    /\ ls = LSConstructed
    /\ ls_pc = "constructed"
    /\ emitted = << >>
    /\ eos = FALSE
    /\ ckpt = None
    /\ rs = None
    /\ rout = None
    /\ br_upstream = << >>
    /\ br = BRConstructed
    /\ br_pc = "constructed"
    /\ br_outs = << >>
    /\ br_eos = FALSE
    /\ br_ckpt = None
    /\ br_rs = None
    /\ br_rout = None
    /\ fl_backend \in Backends
    /\ \E protocol \in {"file", "s3"}, patterns \in SeqsUpTo(Patterns, MaxPat) :
          fl = FLConstructed(protocol, patterns)
    /\ fl_pc = IF FLInitRaises(fl_backend) THEN "init_raised" ELSE "constructed"
    /\ fl_outs = << >>
    /\ fl_eos = FALSE
    /\ fl_ckpt = None
    /\ fl_rs = None
    /\ fl_rout = None

SpecLS == InitLS /\ [][NextLS]_vars

SpecBR == InitBR /\ [][NextBR]_vars

SpecFL == InitFL /\ [][NextFL]_vars


----------------------------------------------------------------------------
(* The three stages side by side. *)

Init == InitLS \/ InitBR \/ InitFL

Next == NextLS \/ NextBR \/ NextFL

Spec == Init /\ [][Next]_vars

----------------------------------------------------------------------------
(* What the claims compare the runs with: the lines of the files, read off *)
(* the storage.                                                            *)

\* the text cut after each newline
RECURSIVE SplitLines(_)
SplitLines(text) ==
    IF text = << >> THEN << >>
    ELSE LET e == LineEnd(text, 1)
         IN <<SubSeq(text, 1, e)>> \o SplitLines(SubSeq(text, e + 1, Len(text)))

\* a line without its newline
Payload(line) ==
    IF Len(line) > 0 /\ line[Len(line)] = NL THEN SubSeq(line, 1, Len(line) - 1) ELSE line

\* the lines a reader gets from uri: none when it does not open, and those
\* before the line whose read fails
ReadableLines(uri) ==
    IF ~CanOpen(uri) THEN << >>
    ELSE LET all == SplitLines(Storage[uri].text)
         IN IF Storage[uri].failAt = NoFail THEN all
            ELSE SubSeq(all, 1, Storage[uri].failAt)

\* the lines of items[pos..], in order: upstream position, file, 0-based
\* line index and payload of each
RECURSIVE ExpectedFrom(_, _)
ExpectedFrom(items, pos) ==
    IF pos > Len(items) THEN << >>
    ELSE LET uri == items[pos].data
             lines == ReadableLines(uri)
         IN [j \in 1..Len(lines) |->
                [pos |-> pos, uri |-> uri, idx |-> j - 1, data |-> Payload(lines[j])]]
            \o ExpectedFrom(items, pos + 1)

ExpectedRun == ExpectedFrom(upstream, 1)

\* the uninterrupted run has made the call after the checkpoint
LSHasNext == ckpt # None /\ (Len(emitted) > ckpt[1].n \/ eos)
\* what that call gave
LSNextOfRun ==
    IF Len(emitted) > ckpt[1].n THEN emitted[ckpt[1].n + 1] ELSE StopIteration

SamePosition(x, y) ==
    /\ x.kind = y.kind
    /\ x.data = y.data
    /\ x.kind = "item" =>
          /\ x.metadata.file_path = y.metadata.file_path
          /\ x.metadata.item_idx = y.metadata.item_idx

----------------------------------------------------------------------------
(* Claims *)

\* C1: after N next() calls that returned lines (N >= 0), get_state(),
\* reset(state) on a fresh decoder over a fresh upstream and one next() give
\* the payload, file_path and item_idx (or the end of sequence) that the
\* (N+1)-th next() of the uninterrupted run gives.
C1_ResumeSamePosition ==
    (LSHasNext /\ ~ckpt[1].eos /\ rs # None) =>
        /\ rs[1].exc = "none"
        /\ rout # None => SamePosition(rout[1], LSNextOfRun)

\* C2: the checkpoint carries the last-seen upstream metadata, so a line the
\* restored decoder reads from the resumed current_file has the metadata,
\* keys and values, of the same line of the uninterrupted run.
C2_ResumeSameMetadata ==
    (/\ LSHasNext /\ ~ckpt[1].eos /\ rout # None
     /\ rout[1].kind = "item"
     /\ rs[1].node.source.idx = ckpt[1].state.source.idx) =>
        rout[1].metadata = LSNextOfRun.metadata


\* C5: a run from reset(None) emits the readable lines of the upstream
\* files in upstream order, each once and in file order, and nothing else;
\* when it signals the end of sequence it has emitted all of them.
C5_EmitsEveryLineOnce ==
    ls_pc = "running" =>
        /\ Len(emitted) <= Len(ExpectedRun)
        /\ \A i \in 1..Len(emitted) : emitted[i].data = ExpectedRun[i].data
        /\ eos => Len(emitted) = Len(ExpectedRun)

\* a finished run over two files that both gave lines
C5_Witness ==
    /\ eos
    /\ Len(upstream) = 2
    /\ Len(emitted) > Len(ReadableLines(upstream[1].data))
    /\ ReadableLines(upstream[1].data) # << >>

\* C6: the item_idx of the lines of a file are 0, 1, ..., k-1 in order, and
\* the first line of the next file has item_idx 0.
C6_ItemIdxCountsLines ==
    \A i \in 1..Len(emitted) :
        i <= Len(ExpectedRun) => emitted[i].metadata.item_idx = I(ExpectedRun[i].idx)

\* the first upstream position from `from` on whose file gives a line, or 0
NextReadable(from) ==
    LET ps == {p \in from..Len(upstream) : ReadableLines(upstream[p].data) # << >>}
    IN IF ps = {} THEN 0 ELSE CHOOSE p \in ps : \A q \in ps : p <= q

\* this step is a next() of the run that pulled an upstream item of `kind`
Pulled(unusable(_)) ==
    \E p \in (ls.source.idx + 1)..(ls'.source.idx) : unusable(upstream[p].data)

\* that next() returned the first line of the next file that gives a line,
\* and signalled the end of sequence only when there is no such file
SkippedOn ==
    LET g == NextReadable(ls.source.idx + 1)
    IN IF g = 0
       THEN eos' /\ emitted' = emitted
       ELSE /\ eos' = eos
            /\ Len(emitted') = Len(emitted) + 1
            /\ emitted'[Len(emitted')].data = Payload(ReadableLines(upstream[g].data)[1])
            /\ ls'.source.idx = g
            /\ ls'.current_file = Some(upstream[g].data)

IsUnopenable(uri) == ~CanOpen(uri)
IsEmptyFile(uri) == CanOpen(uri) /\ Storage[uri].text = << >>

\* C7: a next() that pulls a file that fails to open neither raises nor
\* signals the end of sequence because of it: it returns the first line of
\* the next openable file that has one.
C7_SkipsBadFile == [][Pulled(IsUnopenable) => SkippedOn]_vars

\* upstream [bad, good]: the first item emitted is good's first line
C7_Witness ==
    /\ Len(upstream) = 2
    /\ ~CanOpen(upstream[1].data)
    /\ Len(emitted) >= 1
    /\ ls.current_file = Some(upstream[2].data)

\* C8: a next() that opens a zero-length file returns no item for it and
\* goes on, in the same call, to the next upstream file.
C8_SkipsEmptyFile == [][Pulled(IsEmptyFile) => SkippedOn]_vars

\* upstream [empty, good]: the first item emitted is good's first line
C8_Witness ==
    /\ Len(upstream) = 2
    /\ IsEmptyFile(upstream[1].data)
    /\ Len(emitted) >= 1
    /\ ls.current_file = Some(upstream[2].data)

\* C9: when the upstream metadata has a key file_path or item_idx, the line
\* item still has the URI of the file read as file_path and the 0-based line
\* index as item_idx.
C9_OwnKeysWin ==
    \A i \in 1..Len(emitted) :
        (/\ i <= Len(ExpectedRun)
         /\ {"file_path", "item_idx"} \cap DOMAIN upstream[ExpectedRun[i].pos].metadata # {}) =>
            /\ emitted[i].metadata.file_path = S(ExpectedRun[i].uri)
            /\ emitted[i].metadata.item_idx = I(ExpectedRun[i].idx)

\* FileReader: the call after the checkpoint, and what it gave
BRHasNext == br_ckpt # None /\ (Len(br_outs) > br_ckpt[1].n \/ br_eos)
BRNextOfRun ==
    IF Len(br_outs) > br_ckpt[1].n THEN br_outs[br_ckpt[1].n + 1] ELSE StopIteration

\* C3: after N next() calls, get_state(), reset(state) on a fresh FileReader
\* over a fresh upstream and one next() give what the (N+1)-th next() of the
\* uninterrupted run gives: the same content item or the end of sequence
\* (and, for a file that cannot be read, the same error).
C3_ReaderResume ==
    (BRHasNext /\ br_rout # None) => br_rout[1] = BRNextOfRun

\* resumed after the first file, and the second file's content came
C3_Witness ==
    /\ BRHasNext
    /\ br_ckpt[1].n = 1
    /\ br_rout # None
    /\ br_rout[1].kind = "item"
    /\ br_rout[1].data = Storage[br_upstream[2].data].text

\* C10: every content item has metadata.file_path equal to the URI pulled
\* from upstream for that call.
C10_FilePathIsUri ==
    \A i \in 1..Len(br_outs) :
        br_outs[i].kind = "item" =>
            /\ "file_path" \in DOMAIN br_outs[i].metadata
            /\ br_outs[i].metadata.file_path = S(br_upstream[i].data)

\* FileLister: the call after the checkpoint, and what it gave
FLHasNext == fl_ckpt # None /\ (Len(fl_outs) > fl_ckpt[1].n \/ fl_eos)
FLNextOfRun ==
    IF Len(fl_outs) > fl_ckpt[1].n THEN fl_outs[fl_ckpt[1].n + 1] ELSE StopIteration

\* C4: after N next() calls, get_state(), reset(state) on a fresh FileLister
\* with the same base URI and patterns over the same backend content and
\* one next() give the item, or the end of sequence, that the (N+1)-th next()
\* of the uninterrupted run gives.
C4_ListerResume ==
    (FLHasNext /\ fl_rout # None) => fl_rout[1] = FLNextOfRun

\* resumed after the first of several files
C4_Witness ==
    /\ FLHasNext
    /\ fl_ckpt[1].n = 1
    /\ fl_rout # None
    /\ fl_rout[1].kind = "item"
    /\ fl_rout[1].data = fl.file_paths[2]

\* a dict without the keys the decoder sets itself
Inherited(d) == [k \in DOMAIN d \ {"file_path", "item_idx"} |-> d[k]]

\* the metadata the upstream item at pos supplied with its file
SuppliedBy(pos) ==
    IF upstream[pos].form = "dict" /\ upstream[pos].hasMeta
    THEN upstream[pos].metadata
    ELSE EmptyDict

\* C11: the metadata of an emitted line other than file_path and item_idx is
\* exactly the metadata of the upstream item that supplied the line's file;
\* an item without a metadata key and a bare string give no inherited key,
\* so no key of an earlier item is carried over.
C11_NoStaleMetadata ==
    \A i \in 1..Len(emitted) :
        i <= Len(ExpectedRun) =>
            Inherited(emitted[i].metadata) = Inherited(SuppliedBy(ExpectedRun[i].pos))

\* the failure of opening or reading uri, "none" when it reads
FailureOf(uri) ==
    IF ~Storage[uri].opens THEN "OpenError"
    ELSE IF Storage[uri].failAt # NoFail THEN "IOError"
    ELSE "none"

\* C12: a FileReader.next() whose file fails to open or to read raises that
\* failure: the call's outcome is the error of the URI it pulled, never the
\* content of a later URI and never the end of sequence, which comes only
\* after every upstream item had its call.
C12_ReaderRaises ==
    /\ Len(br_outs) <= Len(br_upstream)
    /\ \A i \in 1..Len(br_outs) :
          FailureOf(br_upstream[i].data) # "none" =>
              br_outs[i] = BRError(FailureOf(br_upstream[i].data))
    /\ br_eos => Len(br_outs) = Len(br_upstream)

\* a failed call followed by a call that read the next file
C12_Witness ==
    /\ Len(br_outs) = 2
    /\ br_outs[1].kind \in {"OpenError", "IOError"}
    /\ br_outs[2].kind = "item"

\* C13: a next() of the decoder signals the end of sequence only when the
\* upstream source is exhausted and no file handle is open: a handle open
\* before the call had no line left to give, and every upstream item has
\* been pulled, whatever files came before.  The same holds for the first
\* next() of a restored decoder.
C13_EosOnlyWhenExhausted ==
    [][/\ (~eos /\ eos') =>
             /\ ls'.source.idx = Len(upstream)
             /\ ls'.file_handle = None
             /\ ls.file_handle # None =>
                   (ReadFails(ls.file_handle[1]) \/ readline(ls.file_handle[1]) = << >>)
       /\ (rout = None /\ rout' = Some(StopIteration)) =>
             /\ rs'[1].node.source.idx = Len(upstream)
             /\ rs'[1].node.file_handle = None
             /\ rs[1].node.file_handle # None =>
                   (\/ ReadFails(rs[1].node.file_handle[1])
                    \/ readline(rs[1].node.file_handle[1]) = << >>)]_vars

\* the end of sequence after a good file and an unopenable last file
C13_Witness ==
    /\ eos
    /\ Len(upstream) = 2
    /\ Len(emitted) >= 1
    /\ ~CanOpen(upstream[2].data)

\* the orders a list can be given in
Perms(q) ==
    {[i \in 1..Len(q) |-> q[f[i]]] :
        f \in {g \in [1..Len(q) -> 1..Len(q)] : \A i, j \in 1..Len(q) : g[i] = g[j] => i = j}}

\* everything a lister emits from its position on
RECURSIVE FLRunAll(_)
FLRunAll(n) ==
    LET r == FLNextOp(n)
    IN IF r.out = StopIteration THEN << >> ELSE <<r.out>> \o FLRunAll(r.node)

\* the URIs a second lister emits after reset(None): same base URI, the
\* patterns as given in ps, the same content globbed in the given order
SecondLister(ps, order) ==
    LET other == FLReset(FLConstructed(fl.protocol, ps),
                         [fl_backend EXCEPT !.order = order], None)
        run == FLRunAll(other)
    IN [i \in 1..Len(run) |-> run[i].data]

\* C14: over the same backend content, a second FileLister with the same
\* base URI and the same patterns emits the URIs the run emits, in the same
\* order, whichever order the backend's glob returns its matches in and
\* whichever order the patterns are given in.  (Stated over the run before
\* any checkpoint is taken: a checkpoint does not change what the run emits.)
C14_ListerDeterminism ==
    (fl_pc = "running" /\ fl_ckpt = None) =>
        \A order \in {"asc", "desc"}, ps \in Perms(fl.patterns) :
            LET second == SecondLister(ps, order)
            IN /\ Len(fl_outs) <= Len(second)
               /\ \A i \in 1..Len(fl_outs) : fl_outs[i].data = second[i]
               /\ fl_eos => Len(fl_outs) = Len(second)

\* a finished run of several URIs over two different patterns and a backend
\* that globs in descending order
C14_Witness ==
    /\ fl_ckpt = None
    /\ fl_eos
    /\ Len(fl_outs) >= 3
    /\ Len(fl.patterns) = 2
    /\ fl.patterns[1] # fl.patterns[2]
    /\ fl_backend.order = "desc"

\* what next() is to give at position i (0-based) of the list paths
EntryAt(paths, i, out) ==
    IF i < Len(paths)
    THEN out.kind = "item" /\ out.data = paths[i + 1]
    ELSE out = StopIteration

\* C15: reset(state) sets the position to the checkpointed current_idx i
\* (0 for reset(None)), and each next() from then on returns the entry of the
\* sorted list at the current position and moves one on; it signals the end
\* of sequence exactly when the position has reached the length of the
\* list, which is on the first call when the list is empty.
C15_ListerOrder ==
    [][/\ (fl_rs = None /\ fl_rs' # None) =>
             fl_rs'[1].current_idx = fl_ckpt[1].state.current_idx
       /\ (fl_rout = None /\ fl_rout' # None) =>
             EntryAt(fl_rs[1].file_paths, fl_rs[1].current_idx, fl_rout'[1])
       /\ (fl_pc = "constructed" /\ fl_pc' = "running") => fl'.current_idx = 0
       /\ (fl_pc = "running" /\ Len(fl_outs') = Len(fl_outs) + 1) =>
             /\ EntryAt(fl.file_paths, fl.current_idx, fl_outs'[Len(fl_outs')])
             /\ fl'.current_idx = fl.current_idx + 1
             /\ fl.current_idx = Len(fl_outs)
       /\ (fl_pc = "running" /\ ~fl_eos /\ fl_eos') =>
             /\ fl.current_idx = Len(fl.file_paths)
             /\ fl' = fl]_vars

\* a lister restored at position 2 of a list of at least 3 gave its third
\* entry
C15_Witness ==
    /\ fl_ckpt # None
    /\ fl_ckpt[1].state.current_idx = 2
    /\ fl_rout # None
    /\ fl_rout[1].kind = "item"
    /\ fl_rout[1].data = fl_rs[1].file_paths[3]

\* enumerating the pattern fails on this backend: its glob raises, or it is a
\* pure wildcard and the is-file check raises on one of its matches
EnumerationFails(pattern) ==
    \/ pattern \in fl_backend.globFails
    \/ /\ pattern \in {"*", "**/*"}
       /\ GlobMatches(fl_backend.content, pattern) \cap fl_backend.isfileFails # {}

\* what the pattern lists when its enumeration succeeds
ListedBy(pattern) ==
    IF pattern \in {"*", "**/*"}
    THEN GlobMatches(fl_backend.content, pattern) \ Directories
    ELSE GlobMatches(fl_backend.content, pattern)

\* the paths of the lister's list, without the protocol prefix
ListedPaths ==
    IF fl.protocol = "file" THEN Range(fl.file_paths)
    ELSE {p \in Entries : Qualify(fl.protocol, p) \in Range(fl.file_paths)}

\* C16: when the enumeration of a pattern fails, in glob or in the is-file
\* check, reset does not raise, the pattern contributes nothing, and the
\* list is made of the matches of all the other patterns, those before and
\* those after it.
C16_PartialDegradation ==
    fl_pc = "running" =>
        /\ ListedPaths =
              UNION {ListedBy(fl.patterns[i]) :
                        i \in {j \in 1..Len(fl.patterns) : ~EnumerationFails(fl.patterns[j])}}
        /\ Len(fl.file_paths) = Cardinality(ListedPaths)

\* the is-file check fails for the second of two patterns and the glob is
\* fine: the first pattern's files are listed
C16_Witness ==
    /\ fl_pc = "running"
    /\ Len(fl.patterns) = 2
    /\ fl_backend.globFails = {}
    /\ ~EnumerationFails(fl.patterns[1])
    /\ EnumerationFails(fl.patterns[2])
    /\ fl.file_paths # << >>

\* the backend fails as a whole: its file system cannot be resolved, or
\* every pattern's glob raises
TotalFailure ==
    \/ ~fl_backend.resolves
    \/ \A i \in 1..Len(fl.patterns) : fl.patterns[i] \in fl_backend.globFails

\* C17: when the backend fails as a whole, neither the construction nor
\* reset raises; the list is empty and the first next() signals the end of
\* sequence.
C17_TotalFailureIsEmpty ==
    TotalFailure =>
        /\ fl_pc # "init_raised"
        /\ fl_pc = "running" => (fl.file_paths = << >> /\ fl_outs = << >>)

\* the handles of a decoder are its _file_handle, if any, and nothing else
OnlyTheHandle(n) == n.open_handles = (IF n.file_handle = None THEN 0 ELSE 1)

\* C18: through reset, next and disposal a decoder has at most one open
\* handle, the one it holds in _file_handle: a handle is closed when its end
\* of file is read, when a read fails and on reset, hence before another
\* file is opened; after disposal no handle the decoder opened is open.
C18_HandleDiscipline ==
    /\ ls.open_handles \in {0, 1}
    /\ ls_pc # "disposed" => OnlyTheHandle(ls)
    /\ ls_pc = "disposed" => ls.open_handles = 0
    /\ rs # None => (rs[1].node.open_handles \in {0, 1} /\ OnlyTheHandle(rs[1].node))

\* a decoder disposed of while it had a file open in the middle
C18_Witness ==
    /\ ls_pc = "disposed"
    /\ ls.file_handle # None
    /\ ls.file_handle[1].ln = 1
    /\ ls.source.idx = 2

\* the number of characters of the first n lines of text
RECURSIVE OffsetOfLine(_, _)
OffsetOfLine(lines, n) ==
    IF n = 0 THEN 0 ELSE Len(lines[n]) + OffsetOfLine(lines, n - 1)

EmittedFromCurrent ==
    Cardinality({i \in 1..Len(emitted) :
                    i <= Len(ExpectedRun) /\ ExpectedRun[i].pos = ls.source.idx})

\* C20: wherever get_state() can be called on the running decoder (after
\* reset, after a next() that returned a line, after a next() that signalled
\* the end of sequence), its current_file is the URI of the open file, or
\* null when no file is open, and its current_line is the number of lines
\* already emitted from that file.
C20_CheckpointTracksOpenFile ==
    ls_pc = "running" =>
        IF ls.file_handle = None
        THEN LSGetState(ls).current_file = None
        ELSE /\ LSGetState(ls).current_file = Some(ls.file_handle[1].uri)
             /\ LSGetState(ls).current_line = EmittedFromCurrent

\* everything a decoder emits from its state on
RECURSIVE LSRunAll(_, _)
LSRunAll(n, items) ==
    LET r == LSNextOp(n, items)
    IN IF r.out = StopIteration THEN << >> ELSE <<r.out>> \o LSRunAll(r.node, items)

\* the same URIs, each as a bare string
AsStrings(items) == [i \in 1..Len(items) |-> StrItem(items[i].data)]

\* C21: the lines a run emits over upstream items of either form have the
\* payload, file_path and item_idx of the lines a decoder emits, from
\* reset(None), over the same URIs given as bare strings.
C21_BothFormsSameLines ==
    LET bare == LSRunAll(LSReset(LSConstructed, None).node, AsStrings(upstream))
    IN \A i \in 1..Len(emitted) :
          /\ i <= Len(bare)
          /\ SamePosition(emitted[i], bare[i])

----------------------------------------------------------------------------
(* next() of the decoder, one iteration of its loops at a time: a call is  *)
(* in progress while ls_pc = "in_next".                                    *)

LoopMaxUp == 3

LoopItems ==
    {StrItem(u) : u \in URIs} \cup {DictItem("a.txt", TRUE, [source |-> S("s3")])}

InitLoop ==
    /\ upstream \in SeqsUpTo(LoopItems, LoopMaxUp)
    /\ ls = LSConstructed
    /\ ls_pc = "constructed"
    /\ emitted = << >>
    /\ eos = FALSE
    /\ ckpt = None
    /\ rs = None
    /\ rout = None
    /\ br_upstream = << >>
    /\ br = BRConstructed
    /\ br_pc = "constructed"
    /\ br_outs = << >>
    /\ br_eos = FALSE
    /\ br_ckpt = None
    /\ br_rs = None
    /\ br_rout = None
    /\ fl_backend = [content |-> {}, order |-> "asc", globFails |-> {},
                     isfileFails |-> {}, resolves |-> TRUE]
    /\ fl = FLConstructed("file", << >>)
    /\ fl_pc = "constructed"
    /\ fl_outs = << >>
    /\ fl_eos = FALSE
    /\ fl_ckpt = None
    /\ fl_rs = None
    /\ fl_rout = None

\* ls.reset(None)
LoopReset ==
    /\ ls_pc = "constructed"
    /\ ls' = LSReset(ls, None).node
    /\ ls_pc' = "running"
    /\ UNCHANGED <<upstream, emitted, eos, ckpt, rs, rout>>
    /\ UNCHANGED <<brVars, flVars>>

\* the caller calls next()
LoopCall ==
    /\ ls_pc = "running"
    /\ ~eos
    /\ ls_pc' = "in_next"
    /\ UNCHANGED <<upstream, ls, emitted, eos, ckpt, rs, rout>>
    /\ UNCHANGED <<brVars, flVars>>

\* mutant of the loop of next(): the next file is fetched whether or not a
\* handle is open
LoopGetFile_PullsAhead ==
    /\ ls_pc = "in_next"
    /\ LET f == LSGetNextFile(ls, upstream)
       IN /\ ls' = f.node
          /\ IF f.stop
             THEN eos' = TRUE /\ ls_pc' = "running"
             ELSE UNCHANGED <<eos, ls_pc>>
    /\ UNCHANGED <<upstream, emitted, ckpt, rs, rout>>
    /\ UNCHANGED <<brVars, flVars>>

\* one iteration of "while self._file_handle is None": _get_next_file, whose
\* StopIteration leaves next()
LoopGetFile ==
    /\ ls_pc = "in_next"
    /\ ls.file_handle = None
    /\ LET f == LSGetNextFile(ls, upstream)
       IN /\ ls' = f.node
          /\ IF f.stop
             THEN eos' = TRUE /\ ls_pc' = "running"
             ELSE UNCHANGED <<eos, ls_pc>>
    /\ UNCHANGED <<upstream, emitted, ckpt, rs, rout>>
    /\ UNCHANGED <<brVars, flVars>>

\* _get_next_line with a handle: the line is returned, or the loop goes round
LoopGetLine ==
    /\ ls_pc = "in_next"
    /\ ls.file_handle # None
    /\ LET r == LSGetNextLine(ls)
       IN /\ ls' = r.node
          /\ IF r.line = None
             THEN UNCHANGED <<emitted, ls_pc>>
             ELSE emitted' = Append(emitted, r.line[1]) /\ ls_pc' = "running"
    /\ UNCHANGED <<upstream, eos, ckpt, rs, rout>>
    /\ UNCHANGED <<brVars, flVars>>

NextLoop == LoopReset \/ LoopCall \/ LoopGetFile \/ LoopGetLine

\* a call in progress goes on: the loops of next() do not wait for anything
SpecLoop ==
    InitLoop /\ [][NextLoop]_vars /\ WF_vars(LoopGetFile) /\ WF_vars(LoopGetLine)

\* C22: over a finite upstream of finite files every next() call ends, and
\* it ends by returning a line item or by signalling the end of sequence,
\* nothing else, however many unopenable or empty files it passes.
C22_NextTerminates ==
    /\ (ls_pc = "in_next") ~> (ls_pc = "running")
    /\ [][(ls_pc = "in_next" /\ ls_pc' = "running") =>
             \/ eos' /\ emitted' = emitted
             \/ /\ ~eos'
                /\ Len(emitted') = Len(emitted) + 1
                /\ emitted'[Len(emitted')].kind = "item"]_vars

\* a call passed an unopenable and an empty file and returned the first line
\* of the third
C22_Witness ==
    /\ ls_pc = "running"
    /\ Len(upstream) = 3
    /\ ~CanOpen(upstream[1].data)
    /\ IsEmptyFile(upstream[2].data)
    /\ Len(emitted) = 1
    /\ ls.source.idx = 3

\* the read the open handle is at fails
ReadFailsNow ==
    ls_pc = "running" /\ ls.file_handle # None /\ ReadFails(ls.file_handle[1])

\* this step is a next() of the run
IsNextStep ==
    ls_pc' = "running" /\ (Len(emitted') = Len(emitted) + 1 \/ (~eos /\ eos'))

\* C23: a next() whose read of the open file fails raises nothing: it closes
\* the handle, leaves the rest of the file, and returns, in the same call,
\* the first line of the next upstream file that has one (the end of
\* sequence only when there is none); the lines emitted before stay as
\* they are.
C23_ReadFailureAbandonsFile ==
    [][(ReadFailsNow /\ IsNextStep) =>
          /\ SkippedOn
          /\ SubSeq(emitted', 1, Len(emitted)) = emitted
          /\ ls'.open_handles = (IF ls'.file_handle = None THEN 0 ELSE 1)]_vars

\* upstream [err, a]: after err's first line the read failed and the next
\* call gave a's first line
C23_Witness ==
    /\ Len(upstream) = 2
    /\ upstream[1].data = "err.txt"
    /\ upstream[2].data = "a.txt"
    /\ Len(emitted) = 2
    /\ emitted[1].data = <<"p">>
    /\ emitted[2].data = <<"x">>

----------------------------------------------------------------------------
(* reset(None) on a decoder that has run, beside a freshly constructed     *)
(* decoder over the same upstream: ls is the decoder with a past, rs the   *)
(* fresh one, and both are then called in step.                            *)

ReinitItems ==
    {StrItem(u) : u \in URIs}
      \cup { DictItem("a.txt", TRUE, [source |-> S("s3")]),
             DictItem("c.txt", FALSE, EmptyDict),
             DictItem("a.txt", TRUE, [file_path |-> S("other.txt"), item_idx |-> I(7)]) }

InitReinit ==
    /\ upstream \in SeqsUpTo(ReinitItems, MaxUp)
    /\ ls = LSConstructed
    /\ ls_pc = "constructed"
    /\ emitted = << >>
    /\ eos = FALSE
    /\ ckpt = None
    /\ rs = None
    /\ rout = None
    /\ br_upstream = << >>
    /\ br = BRConstructed
    /\ br_pc = "constructed"
    /\ br_outs = << >>
    /\ br_eos = FALSE
    /\ br_ckpt = None
    /\ br_rs = None
    /\ br_rout = None
    /\ fl_backend = [content |-> {}, order |-> "asc", globFails |-> {},
                     isfileFails |-> {}, resolves |-> TRUE]
    /\ fl = FLConstructed("file", << >>)
    /\ fl_pc = "constructed"
    /\ fl_outs = << >>
    /\ fl_eos = FALSE
    /\ fl_ckpt = None
    /\ fl_rs = None
    /\ fl_rout = None

\* the first ls.reset(None)
ReinitFirstReset ==
    /\ ls_pc = "constructed"
    /\ ls' = LSReset(ls, None).node
    /\ ls_pc' = "running"
    /\ UNCHANGED <<upstream, emitted, eos, ckpt, rs, rout>>
    /\ UNCHANGED <<brVars, flVars>>

\* ls.next() of the first run
ReinitNext ==
    /\ ls_pc = "running"
    /\ ~eos
    /\ LET r == LSNextOp(ls, upstream)
       IN /\ ls' = r.node
          /\ IF r.out = StopIteration
             THEN eos' = TRUE /\ UNCHANGED emitted
             ELSE emitted' = Append(emitted, r.out) /\ UNCHANGED eos
    /\ UNCHANGED <<upstream, ls_pc, ckpt, rs, rout>>
    /\ UNCHANGED <<brVars, flVars>>

\* ls.reset(None) after at least one next(); ckpt keeps what get_state() gave
\* just before.  The fresh decoder is constructed and reset(None).
ReinitAgain ==
    /\ ls_pc = "running"
    /\ emitted # << >> \/ eos
    /\ ckpt' = Some([state |-> LSGetState(ls), n |-> Len(emitted), eos |-> eos])
    /\ ls' = LSReset(ls, None).node
    /\ rs' = Some(LSReset(LSConstructed, None))
    /\ ls_pc' = "rerun"
    /\ emitted' = << >>
    /\ eos' = FALSE
    /\ rout' = None
    /\ UNCHANGED upstream
    /\ UNCHANGED <<brVars, flVars>>

\* next() on both decoders
ReinitBothNext ==
    /\ ls_pc = "rerun"
    /\ ~eos
    /\ LET r == LSNextOp(ls, upstream)
           f == LSNextOp(rs[1].node, upstream)
       IN /\ ls' = r.node
          /\ IF r.out = StopIteration
             THEN eos' = TRUE /\ UNCHANGED emitted
             ELSE emitted' = Append(emitted, r.out) /\ UNCHANGED eos
          /\ rs' = Some([node |-> f.node, exc |-> "none"])
          /\ rout' = Some(f.out)
    /\ UNCHANGED <<upstream, ls_pc, ckpt>>
    /\ UNCHANGED <<brVars, flVars>>

NextReinit == ReinitFirstReset \/ ReinitNext \/ ReinitAgain \/ ReinitBothNext

SpecReinit == InitReinit /\ [][NextReinit]_vars

\* C24: reset(None) on a decoder that has run (stopped in the middle of a
\* file, after a skipped file or at the end of sequence) closes the handle
\* and resets upstream, and every next() from then on gives what the same
\* call gives on a freshly constructed decoder over the same upstream: the
\* same item with the same metadata, or the end of sequence.
C24_ResetNoneReinitializes ==
    ls_pc = "rerun" =>
        /\ ls.open_handles = (IF ls.file_handle = None THEN 0 ELSE 1)
        /\ rout = None =>
              /\ ls.file_handle = None
              /\ ls.source = SrcReset(None)
        /\ rout # None =>
              rout[1] = (IF eos THEN StopIteration ELSE emitted[Len(emitted)])

\* reset in the middle of the second file, the first having been skipped,
\* and then run again for two lines
C24_Witness ==
    /\ ls_pc = "rerun"
    /\ ckpt[1].state.source.idx = 2
    /\ ckpt[1].state.current_line = 1
    /\ ReadableLines(upstream[1].data) = << >>
    /\ Len(emitted) = 2
    /\ rout # None

\* "<protocol>://"
SchemePrefix(protocol) == ProtocolCodes(protocol) \o <<58, 47, 47>>

\* C25: the list a FileLister holds after reset, and what it emits from it,
\* is strictly increasing in the lexicographic order of the full path, so a
\* file matched by several patterns is there once; with a protocol other
\* than "file" every entry starts with the scheme prefix.
C25_SortedDedupQualified ==
    fl_pc = "running" =>
        /\ \A i, j \in 1..Len(fl.file_paths) :
              i < j => LexLess(fl.file_paths[i], fl.file_paths[j])
        /\ \A i, j \in 1..Len(fl_outs) :
              i < j => LexLess(fl_outs[i].data, fl_outs[j].data)
        /\ fl.protocol # "file" =>
              \A i \in 1..Len(fl_outs) :
                  /\ Len(fl_outs[i].data) > Len(SchemePrefix(fl.protocol))
                  /\ SubSeq(fl_outs[i].data, 1, Len(SchemePrefix(fl.protocol)))
                        = SchemePrefix(fl.protocol)

\* an s3 lister whose two wildcard patterns both match the top-level files
\* has emitted its three files
C25_Witness ==
    /\ fl_pc = "running"
    /\ fl.protocol = "s3"
    /\ fl.patterns = <<"*", "**/*">>
    /\ fl_backend.content = Entries
    /\ Len(fl_outs) = 3
    /\ fl_eos

\* the path an emitted URI names
PathOf(uri) ==
    IF fl.protocol = "file" THEN uri
    ELSE SubSeq(uri, Len(SchemePrefix(fl.protocol)) + 1, Len(uri))

\* C26: when one of the patterns is a pure wildcard ("*" or "**/*"), no URI
\* the lister emits names a directory, also when another pattern of the list
\* matches the directory.
C26_WildcardListsFilesOnly ==
    (fl_pc = "running" /\ \E i \in 1..Len(fl.patterns) : fl.patterns[i] \in {"*", "**/*"}) =>
        \A i \in 1..Len(fl_outs) : PathOf(fl_outs[i].data) \notin Directories

\* C26 as the code has it: what a pure wildcard pattern contributes is files
\* only, so a directory is emitted only when a pattern that is not a pure
\* wildcard matches it.
C26_WildcardContributesFilesOnly ==
    fl_pc = "running" =>
        \A i \in 1..Len(fl_outs) :
            PathOf(fl_outs[i].data) \in Directories =>
                \E k \in 1..Len(fl.patterns) :
                    /\ fl.patterns[k] \notin {"*", "**/*"}
                    /\ PathOf(fl_outs[i].data) \in GlobMatches(fl_backend.content, fl.patterns[k])

\* a recursive wildcard alone over a backend with a directory: the three
\* files were emitted and the list is at its end
C26_Witness ==
    /\ fl_pc = "running"
    /\ fl.patterns = <<"**/*">>
    /\ fl_backend.content = Entries
    /\ Len(fl_outs) = 3
    /\ fl_eos

\* the outcome out is that of reading the upstream item at position p
OutcomeOf(p, out) ==
    IF FailureOf(br_upstream[p].data) = "none"
    THEN out.kind = "item" /\ out.data = Storage[br_upstream[p].data].text
    ELSE out.kind = FailureOf(br_upstream[p].data)

\* C27: every FileReader.next() moves the upstream position by exactly one
\* item, whether it returns the content or raises the failure of that item,
\* and by none when upstream is exhausted and the end of sequence is passed
\* on; so the call after a failure on an item reads the item after it.
C27_ReaderPullsOne ==
    [][(/\ br_pc = "running"
        /\ br_pc' = "running"
        /\ Len(br_outs') = Len(br_outs) + 1 \/ (~br_eos /\ br_eos')) =>
          IF br.source.current_idx < Len(br_upstream)
          THEN /\ br'.source.current_idx = br.source.current_idx + 1
               /\ Len(br_outs') = Len(br_outs) + 1
               /\ br_eos' = br_eos
               /\ OutcomeOf(br.source.current_idx + 1, br_outs'[Len(br_outs')])
          ELSE /\ br'.source.current_idx = br.source.current_idx
               /\ br_eos'
               /\ br_outs' = br_outs]_vars

\* the read of the first item failed, and the next call read the second
C27_Witness ==
    /\ Len(br_upstream) = 2
    /\ Len(br_outs) = 2
    /\ br_outs[1].kind = "IOError"
    /\ br_outs[2].kind = "item"
    /\ br.source.current_idx = 2

----------------------------------------------------------------------------
(* A decoder and a reader, each over its own upstream, each with its       *)
(* checkpoint and its restored instance.                                   *)

NestLSItems == {StrItem("a.txt"), StrItem("bad.txt")}

NestBRItems ==
    {DictItem("a.txt", FALSE, EmptyDict), DictItem("bad.txt", TRUE, [source |-> S("s3")])}

InitNest ==
    /\ upstream \in SeqsUpTo(NestLSItems, MaxUp)
    /\ ls = LSConstructed
    /\ ls_pc = "constructed"
    /\ emitted = << >>
    /\ eos = FALSE
    /\ ckpt = None
    /\ rs = None
    /\ rout = None
    /\ br_upstream \in SeqsUpTo(NestBRItems, MaxUp)
    /\ br = BRConstructed
    /\ br_pc = "constructed"
    /\ br_outs = << >>
    /\ br_eos = FALSE
    /\ br_ckpt = None
    /\ br_rs = None
    /\ br_rout = None
    /\ fl_backend = [content |-> {}, order |-> "asc", globFails |-> {},
                     isfileFails |-> {}, resolves |-> TRUE]
    /\ fl = FLConstructed("file", << >>)
    /\ fl_pc = "constructed"
    /\ fl_outs = << >>
    /\ fl_eos = FALSE
    /\ fl_ckpt = None
    /\ fl_rs = None
    /\ fl_rout = None

NextNest ==
    \/ LSResetNone \/ LSNext \/ LSCheckpoint \/ LSRestore \/ LSResumedNext \/ LSDispose
    \/ BRResetNone \/ BRNext \/ BRCheckpoint \/ BRRestore \/ BRResumedNext

SpecNest == InitNest /\ [][NextNest]_vars

\* C28: the checkpoint of the decoder and that of the reader hold, under the
\* key source, the checkpoint of their upstream as it is when get_state() is
\* called, and reset(state) hands that value to the upstream's reset: the
\* get_state() of the restored stage, right after reset(state), has under
\* source the value the state has.
C28_CheckpointNesting ==
    /\ (ckpt # None /\ Len(emitted) = ckpt[1].n /\ eos = ckpt[1].eos) =>
          ckpt[1].state.source = SrcGetState(ls.source)
    /\ (rs # None /\ rout = None) =>
          LSGetState(rs[1].node).source = ckpt[1].state.source
    /\ (br_ckpt # None /\ Len(br_outs) = br_ckpt[1].n /\ br_eos = br_ckpt[1].eos) =>
          br_ckpt[1].state.source = BSrcGetState(br.source)
    /\ (br_rs # None /\ br_rout = None) =>
          BRGetState(br_rs[1]).source = br_ckpt[1].state.source

\* a decoder restored from a checkpoint with upstream position 2 and a
\* reader restored from one with upstream position 1
C28_Witness ==
    /\ rs # None /\ rout = None
    /\ ckpt[1].state.source = [idx |-> 2]
    /\ br_rs # None /\ br_rout = None
    /\ br_ckpt[1].state.source = [current_idx |-> 1]

\* C29: a checkpoint taken after the decoder signalled the end of sequence
\* restores to the end of sequence: reset(state) on a fresh decoder does not
\* raise, and its first next() signals the end of sequence and emits no
\* line, also when the last upstream item is a file that does not open.
C29_RestoreAfterEos ==
    (ckpt # None /\ ckpt[1].eos /\ rs # None) =>
        /\ rs[1].exc = "none"
        /\ rout # None => rout[1] = StopIteration

\* C30: the decoder pulls from upstream only while it has no open handle,
\* one item at a time; so whenever next() has returned a line the handle is
\* open on current_file and the upstream position of the checkpoint is
\* exactly one past the item that supplied current_file: nothing is pulled
\* ahead of the file being read.
C30_PullsOnlyWithoutHandle ==
    /\ [][ls'.source.idx # ls.source.idx =>
             /\ ls.file_handle = None
             /\ ls.open_handles = 0
             /\ ls'.source.idx = ls.source.idx + 1]_vars
    /\ []((ls_pc = "running" /\ emitted # << >> /\ ~eos) =>
             /\ ls.file_handle # None
             /\ LSGetState(ls).source.idx \in 1..Len(upstream)
             /\ LSGetState(ls).current_file =
                   Some(upstream[LSGetState(ls).source.idx].data)
             /\ ls.file_handle[1].uri = upstream[LSGetState(ls).source.idx].data)

\* a line of the second of three files has been returned and the third item
\* has not been pulled
C30_Witness ==
    /\ ls_pc = "running"
    /\ Len(upstream) = 3
    /\ ls.source.idx = 2
    /\ ls.file_handle # None
    /\ ls.file_handle[1].ln = 1
    /\ Len(emitted) >= 2

----------------------------------------------------------------------------
(* reset(state) with a state written against other file contents: the      *)
(* state names an upstream position, the file of that item and a number of *)
(* lines already read that the file may no longer have.  rs is the decoder *)
(* that receives the state; its caller goes on to call next() whatever     *)
(* reset did.                                                              *)

StaleMaxLine == 3

StaleItems == {StrItem(u) : u \in {"a.txt", "c.txt", "empty.txt"}}

\* the states get_state() can have written after item i: position i (one
\* past the 0-based index of the item), its file, and k lines read
StaleStates(items) ==
    {[source |-> [idx |-> i],
      current_file |-> Some(items[i].data),
      current_line |-> k] : i \in 1..Len(items), k \in 0..StaleMaxLine}

InitStale ==
    /\ upstream \in SeqsUpTo(StaleItems, MaxUp)
    /\ ls = LSConstructed
    /\ ls_pc = "constructed"
    /\ emitted = << >>
    /\ eos = FALSE
    /\ ckpt = None
    /\ rs = None
    /\ rout = None
    /\ br_upstream = << >>
    /\ br = BRConstructed
    /\ br_pc = "constructed"
    /\ br_outs = << >>
    /\ br_eos = FALSE
    /\ br_ckpt = None
    /\ br_rs = None
    /\ br_rout = None
    /\ fl_backend = [content |-> {}, order |-> "asc", globFails |-> {},
                     isfileFails |-> {}, resolves |-> TRUE]
    /\ fl = FLConstructed("file", << >>)
    /\ fl_pc = "constructed"
    /\ fl_outs = << >>
    /\ fl_eos = FALSE
    /\ fl_ckpt = None
    /\ fl_rs = None
    /\ fl_rout = None

\* a fresh decoder, then reset(state)
StaleReset ==
    /\ ls_pc = "constructed"
    /\ \E st \in StaleStates(upstream) :
          /\ ckpt' = Some([state |-> st, n |-> 0, eos |-> FALSE])
          /\ rs' = Some(LSReset(LSConstructed, Some(st)))
    /\ ls_pc' = "restored"
    /\ UNCHANGED <<upstream, ls, emitted, eos, rout>>
    /\ UNCHANGED <<brVars, flVars>>

\* next() on the decoder that was reset, until the end of sequence
StaleNext ==
    /\ ls_pc = "restored"
    /\ ~eos
    /\ LET r == LSNextOp(rs[1].node, upstream)
       IN /\ rs' = Some([node |-> r.node, exc |-> rs[1].exc])
          /\ rout' = Some(r.out)
          /\ IF r.out = StopIteration
             THEN eos' = TRUE /\ UNCHANGED emitted
             ELSE emitted' = Append(emitted, r.out) /\ UNCHANGED eos
    /\ UNCHANGED <<upstream, ls, ls_pc, ckpt>>
    /\ UNCHANGED <<brVars, flVars>>

NextStale == StaleReset \/ StaleNext

SpecStale == InitStale /\ [][NextStale]_vars

\* C31: the decoder signals the end of sequence only from next(): reset(state)
\* never raises StopIteration, also when current_file has fewer lines than
\* current_line.
C31_ResetNeverSignalsEos ==
    rs # None => rs[1].exc # "StopIteration"

\* C32: after reset(None) and any number of next() calls the index of the
\* lister stays within 0..length of the file list; a next() that returns an
\* item moves the index on by exactly one, a next() that signals the end of
\* sequence leaves the index and the list as they were, and once the list is
\* exhausted a further next() signals the end again and get_state() is the
\* same after it.
C32_ListerIndexBounds ==
    /\ [](fl_pc = "running" => fl.current_idx \in 0..Len(fl.file_paths))
    /\ []((fl_pc = "running" /\ fl_eos) =>
             /\ FLNextOp(fl).out = StopIteration
             /\ FLNextOp(fl).node.file_paths = fl.file_paths
             /\ FLGetState(FLNextOp(fl).node) = FLGetState(fl))
    /\ [][/\ (fl_pc = "running" /\ Len(fl_outs') = Len(fl_outs) + 1) =>
                /\ fl'.current_idx = fl.current_idx + 1
                /\ fl'.file_paths = fl.file_paths
          /\ (fl_pc = "running" /\ ~fl_eos /\ fl_eos') =>
                /\ fl'.current_idx = fl.current_idx
                /\ fl'.file_paths = fl.file_paths
                /\ FLGetState(fl') = FLGetState(fl)]_vars

\* a list of at least two paths was returned entry by entry and the call
\* after the last one signalled the end of sequence
C32_Witness ==
    /\ fl_pc = "running"
    /\ fl_eos
    /\ Len(fl.file_paths) >= 2
    /\ Len(fl_outs) = Len(fl.file_paths)
    /\ fl.current_idx = Len(fl.file_paths)

====
